---- MODULE Spec2Model ----
(***************************************************************************)
(* The batch compressor of src-tauri/src/main.rs: compress_images fans a   *)
(* list of input paths over a rayon pool of NumThreads threads, every      *)
(* worker resolving a free output name with get_unique_path and writing    *)
(* the encoded image, with the events img-start, img-processed and         *)
(* batch-finished emitted to the shell.                                    *)
(* preview_images estimates the output sizes from a small proxy of every   *)
(* image and emits one preview-done event; the sizes both commands compute *)
(* are modelled with exact ratios in place of f64.                         *)
(***************************************************************************)
EXTENDS Integers, Sequences, FiniteSets, TLC

VARIABLES
    script,   \* the calls of compress_images the shell has still to make
    format,   \* config.format of the calls of this run
    fs,       \* the output directory: file name -> content
    batch,    \* per call: its state, config.paths and batch-finished count
    item,     \* per call and input position: the worker closure's state
    pv,       \* the run of preview_images: its config, closures and event
    num       \* one image's sizes, as the estimator and the resizer see them

vars == <<script, format, fs, batch, item, pv, num>>

----------------------------------------------------------------------------
(* Bounds *)

\* input paths of the calls of one script, all calls together
MaxItems == 2
\* pre-existing output files carry a suffix below MaxPre
MaxPre == 1
\* length of the one long batch of the pool scripts
PoolLen == 5

\* rayon::ThreadPoolBuilder::new().num_threads(4)
NumThreads == 4

MaxLen == IF PoolLen > MaxItems THEN PoolLen ELSE MaxItems

Batches == {1, 2}
Positions == 1..MaxLen

----------------------------------------------------------------------------
(* Inputs *)

Path(d, s) == [dir |-> d, stem |-> s]

\* the image files the input directories hold; every other path fails to open
InputImages == {Path("a", 1), Path("b", 1), Path("a", 2)}

\* the paths a small script draws from: two images of one stem in two
\* directories and a path that names no file
Paths == {Path("a", 1), Path("b", 1), Path("gone", 1)}

Formats == {"webp", "avif", "png", "jpg", "jpeg", "bmp"}

Calls(n) == UNION {[1..k -> Paths] : k \in 1..n}

\* two calls in a row of one path each
TwoCalls == {<<c, d>> : c \in Calls(1), d \in Calls(1)}

\* one call, or two calls in a row
Scripts == {<<c>> : c \in Calls(MaxItems)} \cup TwoCalls


\* one call of PoolLen paths, more than the pool has threads: an image
\* followed by paths that name no file
PoolScripts ==
    {<<[i \in 1..PoolLen |-> IF i = 1 THEN p ELSE Path("gone", 1)]>> :
        p \in {Path("a", 1), Path("a", 2)}}

----------------------------------------------------------------------------
(* Paths and files *)

\* path.file_stem()
file_stem(p) == p.stem

\* image::open(path) succeeds
image_open(p) == p \in InputImages

\* let ext = if config.format == "jpeg" { "jpg" } else { &config.format }
ext_of(fmt) == IF fmt = "jpeg" THEN "jpg" ELSE fmt

\* an output path: n = 0 is {stem}-compressed.{ext}, n >= 1 is
\* {stem}-compressed-{n}.{ext}
OutPath(s, n, e) == [stem |-> s, n |-> n, ext |-> e]

NoPath == OutPath(0, 0, "")

\* Path::new(&config.output_dir).join(format!("{}-compressed.{}", stem, ext))
base_output_path(p, fmt) == OutPath(file_stem(p), 0, ext_of(fmt))

\* exists as it would be if the check looked at another path than the one
\* about to be written
exists_elsewhere(path, files) == FALSE

\* path.exists()
exists(path, files) == path \in DOMAIN files

\* unique_next as it would be with the counter incremented before the
\* name is formatted
unique_next_early(path, counter) ==
    [path |-> [path EXCEPT !.n = counter + 1], counter |-> counter + 1]

\* the body of get_unique_path's while loop
unique_next(path, counter) ==
    [path |-> [path EXCEPT !.n = counter], counter |-> counter + 1]

\* get_unique_path run to its return with the directory unchanged meanwhile
RECURSIVE unique_from(_, _, _)
unique_from(path, counter, files) ==
    IF exists(path, files)
    THEN unique_from(unique_next(path, counter).path,
                     unique_next(path, counter).counter, files)
    ELSE path

get_unique_path(path, files) == unique_from(path, 1, files)

get_image_format(fmt) ==
    CASE fmt \in {"jpg", "jpeg"} -> "Jpeg"
      [] fmt = "png" -> "Png"
      [] fmt = "webp" -> "WebP"
      [] fmt = "avif" -> "Avif"
      [] OTHER -> "Jpeg"

\* the encoder each arm of `match config.format.as_str()` runs
codec_of(fmt) ==
    CASE fmt = "webp" -> "WebP"
      [] fmt = "avif" -> "Avif"
      [] fmt = "png" -> "Png"
      [] fmt \in {"jpg", "jpeg"} -> "Jpeg"
      [] OTHER -> get_image_format(fmt)

Pre == <<0, 0>>

\* a file: who wrote it, with which encoder, and whether all of it arrived
File(owner, codec, complete) ==
    [owner |-> owner, codec |-> codec, complete |-> complete]

\* fs::write, File::create: the file is created, or truncated and replaced
put(files, path, file) ==
    [p \in DOMAIN files \cup {path} |-> IF p = path THEN file ELSE files[p]]

PreNames(e) == {OutPath(1, n, e) : n \in 0..(MaxPre - 1)}

----------------------------------------------------------------------------
(* State *)

\* ProcessResult; an Option is a set of at most one element
ProcessResult(original, status, error_msg, new_path) ==
    [original |-> original, status |-> status,
     error_msg |-> error_msg, new_path |-> new_path]

\* the closure of par_iter().for_each for one input position
Item(pc, path, counter, starts, results) ==
    [pc |-> pc, path |-> path, counter |-> counter,
     starts |-> starts, results |-> results]

Pending == Item("pending", NoPath, 0, 0, <<>>)

Batch(state, paths, finished, awaited) ==
    [state |-> state, paths |-> paths, finished |-> finished, awaited |-> awaited]

Idle == Batch("idle", <<>>, 0, FALSE)

\* no preview has been asked for
PvIdle ==
    [state |-> "idle", paths |-> <<>>, max_width |-> {}, max_height |-> {},
     items |-> <<>>, emitted |-> <<>>]

\* no image is being measured
NumIdle == [stage |-> "idle"]

Init0 ==
    /\ format \in Formats
    /\ \E pre \in SUBSET PreNames(ext_of(format)) :
          fs = [p \in pre |-> File(Pre, "pre", TRUE)]
    /\ batch = [b \in Batches |-> Idle]
    /\ item = [b \in Batches |-> <<>>]
    /\ pv = PvIdle
    /\ num = NumIdle

Init ==
    /\ script \in Scripts
    /\ Init0

PoolInit ==
    /\ script \in PoolScripts
    /\ Init0

FairInit ==
    /\ script \in PoolScripts \cup TwoCalls
    /\ Init0

\* the input positions of batch b: one closure each
Items(b) == DOMAIN item[b]

\* the items of batch b a pool thread is running
InFlight(b) ==
    {i \in Items(b) : item[b][i].pc \in {"started", "unique", "write"}}

Done(b) == \A i \in Items(b) : item[b][i].pc = "done"

SetItem(b, i, it) == item' = [item EXCEPT ![b][i] = it]

----------------------------------------------------------------------------
(* compress_images *)

\* the command: the pool is built, the batch is spawned and the call returns
Invoke(b) ==
    /\ script # <<>>
    /\ batch[b].state = "idle"
    /\ \A c \in Batches : c < b => batch[c].state # "idle"
    /\ batch' = [batch EXCEPT ![b] =
          Batch("running", Head(script), 0,
                \A c \in Batches : c < b => batch[c].state = "done")]
    /\ item' = [item EXCEPT ![b] = [i \in 1..Len(Head(script)) |-> Pending]]
    /\ script' = Tail(script)
    /\ UNCHANGED <<pv, num, format, fs>>

\* EmitStart as it would be on a pool without a thread limit
EmitStartUnbounded(b, i) ==
    /\ batch[b].state = "running"
    /\ item[b][i].pc = "pending"
    /\ item' = [item EXCEPT ![b][i] = [@ EXCEPT !.pc = "started", !.starts = @ + 1]]
    /\ UNCHANGED <<pv, num, script, format, fs, batch>>

\* EmitStart as it would be without the emit of img-start
EmitStartSilent(b, i) ==
    /\ batch[b].state = "running"
    /\ item[b][i].pc = "pending"
    /\ Cardinality(InFlight(b)) < NumThreads
    /\ item' = [item EXCEPT ![b][i] = [@ EXCEPT !.pc = "started"]]
    /\ UNCHANGED <<pv, num, script, format, fs, batch>>

\* a pool thread takes an item: app_handle.emit("img-start", path_str)
EmitStart(b, i) ==
    /\ batch[b].state = "running"
    /\ item[b][i].pc = "pending"
    /\ Cardinality(InFlight(b)) < NumThreads
    /\ SetItem(b, i, [item[b][i] EXCEPT !.pc = "started", !.starts = @ + 1])
    /\ UNCHANGED <<pv, num, script, format, fs, batch>>

\* OpenFailed as it would be if the open error were passed on as the
\* encoders' and writers' errors are
OpenFailedIo(original) ==
    ProcessResult(original, "error", {"io error"}, {})

OpenFailed(original) ==
    ProcessResult(original, "error", {"Open failed"}, {})

\* OpenFail as it would be without the else branch
OpenFailSilent(b, i) ==
    /\ item[b][i].pc = "started"
    /\ ~image_open(batch[b].paths[i])
    /\ item' = [item EXCEPT ![b][i] = [@ EXCEPT !.pc = "done"]]
    /\ UNCHANGED <<pv, num, script, format, fs, batch>>

\* OpenFail as it would be with image::open(path).unwrap(): the closure
\* panics and for_each never returns
OpenFailUnwrap(b, i) ==
    /\ item[b][i].pc = "started"
    /\ ~image_open(batch[b].paths[i])
    /\ item' = [item EXCEPT ![b][i] = [@ EXCEPT !.pc = "panicked"]]
    /\ UNCHANGED <<pv, num, script, format, fs, batch>>

\* image::open fails: the else branch emits the failed result
OpenFail(b, i) ==
    /\ item[b][i].pc = "started"
    /\ ~image_open(batch[b].paths[i])
    /\ SetItem(b, i, [item[b][i] EXCEPT
          !.pc = "done",
          !.results = Append(@, OpenFailed(batch[b].paths[i]))])
    /\ UNCHANGED <<pv, num, script, format, fs, batch>>

\* image::open succeeds; the base output path is built and get_unique_path
\* is entered (counter = 1)
OpenOk(b, i) ==
    /\ item[b][i].pc = "started"
    /\ image_open(batch[b].paths[i])
    /\ SetItem(b, i, [item[b][i] EXCEPT
          !.pc = "unique",
          !.path = base_output_path(batch[b].paths[i], format),
          !.counter = 1])
    /\ UNCHANGED <<pv, num, script, format, fs, batch>>

\* while path.exists() { ... }: one iteration
UniqueLoop(b, i) ==
    /\ item[b][i].pc = "unique"
    /\ exists(item[b][i].path, fs)
    /\ SetItem(b, i, [item[b][i] EXCEPT
          !.path = unique_next(item[b][i].path, item[b][i].counter).path,
          !.counter = unique_next(item[b][i].path, item[b][i].counter).counter])
    /\ UNCHANGED <<pv, num, script, format, fs, batch>>

\* path.exists() is false: get_unique_path returns path
UniqueReturn(b, i) ==
    /\ item[b][i].pc = "unique"
    /\ ~exists(item[b][i].path, fs)
    /\ SetItem(b, i, [item[b][i] EXCEPT !.pc = "write"])
    /\ UNCHANGED <<pv, num, script, format, fs, batch>>

\* let status_res = match res { Ok(_) => ..., Err(e) => ... }
status_res(original, res, output_path) ==
    IF res = "Ok"
    THEN ProcessResult(original, "success", {}, {output_path})
    ELSE ProcessResult(original, "error", {res}, {})

\* EmitProcessed as it would be if the result named the first path of the
\* list instead of the closure's own
EmitProcessedFirst(b, i, res) ==
    item' = [item EXCEPT ![b][i] = [@ EXCEPT
        !.pc = "done",
        !.results = Append(@, status_res(batch[b].paths[1], res, item[b][i].path))]]

\* app_handle.emit("img-processed", status_res): the closure ends
EmitProcessed(b, i, res) ==
    SetItem(b, i, [item[b][i] EXCEPT
        !.pc = "done",
        !.results = Append(@, status_res(batch[b].paths[i], res, item[b][i].path))])

\* what a write leaves at the path: nothing new when the file could not be
\* opened for writing, a truncated file when the data did not all arrive
written(files, path, owner, codec, outcome) ==
    CASE outcome = "Ok" -> put(files, path, File(owner, codec, TRUE))
      [] outcome = "cut" -> put(files, path, File(owner, codec, FALSE))
      [] OTHER -> files

\* "webp", "avif", "png": encode_x(&final_img, quality).and_then(|d|
\* fs::write(&output_path, d)); the encoder fails before anything is written
EncodeThenWrite(b, i) ==
    /\ item[b][i].pc = "write"
    /\ format \in {"webp", "avif", "png"}
    /\ \E outcome \in {"Ok", "encode", "create", "cut"} :
          /\ fs' = written(fs, item[b][i].path, <<b, i>>, codec_of(format), outcome)
          /\ EmitProcessed(b, i, IF outcome = "Ok" THEN "Ok"
                                 ELSE IF outcome = "encode" THEN "encode error"
                                 ELSE "io error")
    /\ UNCHANGED <<pv, num, script, format, batch>>

\* "jpg" | "jpeg": fs::File::create(&output_path), then JpegEncoder::encode
\* into the created file; a failing encoder leaves the truncated file
CreateThenEncode(b, i) ==
    /\ item[b][i].pc = "write"
    /\ format \in {"jpg", "jpeg"}
    /\ \E outcome \in {"Ok", "create", "cut"} :
          /\ fs' = written(fs, item[b][i].path, <<b, i>>, codec_of(format), outcome)
          /\ EmitProcessed(b, i, IF outcome = "Ok" THEN "Ok"
                                 ELSE IF outcome = "create" THEN "io error"
                                 ELSE "encode error")
    /\ UNCHANGED <<pv, num, script, format, batch>>

\* _ => final_img.save_with_format(&output_path, get_image_format(format)):
\* the image crate creates the file and then encodes into it
SaveWithFormat(b, i) ==
    /\ item[b][i].pc = "write"
    /\ format \notin {"webp", "avif", "png", "jpg", "jpeg"}
    /\ \E outcome \in {"Ok", "create", "cut"} :
          /\ fs' = written(fs, item[b][i].path, <<b, i>>, codec_of(format), outcome)
          /\ EmitProcessed(b, i, IF outcome = "Ok" THEN "Ok"
                                 ELSE IF outcome = "create" THEN "io error"
                                 ELSE "encode error")
    /\ UNCHANGED <<pv, num, script, format, batch>>

\* BatchFinished as it would be if the emit were outside the spawned
\* task, not after pool.install
BatchFinishedEarly(b) ==
    /\ batch[b].state = "running"
    /\ batch[b].finished = 0
    /\ batch' = [batch EXCEPT ![b].finished = @ + 1,
                               ![b].state = IF Done(b) THEN "done" ELSE @]
    /\ UNCHANGED <<pv, num, script, format, fs, item>>

\* pool.install returns when for_each has run every item:
\* app_handle.emit("batch-finished", ())
BatchFinished(b) ==
    /\ batch[b].state = "running"
    /\ Done(b)
    /\ batch' = [batch EXCEPT ![b].state = "done", ![b].finished = @ + 1]
    /\ UNCHANGED <<pv, num, script, format, fs, item>>

\* the steps of the worker closure for one item
Worker(b, i) ==
    \/ EmitStart(b, i)
    \/ OpenFail(b, i)
    \/ OpenOk(b, i)
    \/ UniqueLoop(b, i)
    \/ UniqueReturn(b, i)
    \/ EncodeThenWrite(b, i)
    \/ CreateThenEncode(b, i)
    \/ SaveWithFormat(b, i)

Next ==
    \/ \E b \in Batches : Invoke(b)
    \/ \E b \in Batches, i \in Positions : i \in Items(b) /\ Worker(b, i)
    \/ \E b \in Batches : BatchFinished(b)

Spec == Init /\ [][Next]_vars

\* the same program on the long batches
PoolSpec == PoolInit /\ [][Next]_vars

\* the pool threads and the spawned task run whenever they can
FairSpec ==
    /\ FairInit /\ [][Next]_vars
    /\ \A b \in Batches : WF_vars(BatchFinished(b))
    /\ \A b \in Batches, i \in Positions : WF_vars(i \in Items(b) /\ Worker(b, i))

----------------------------------------------------------------------------
(* Events, as the shell receives them *)

\* img-start events emitted for input position i of batch b
Starts(b, i) == item[b][i].starts

\* img-processed events emitted for input position i of batch b
Processed(b, i) == Len(item[b][i].results)

\* batch-finished events emitted for batch b
Finished(b) == batch[b].finished

Succeeded(b, i) ==
    /\ Processed(b, i) = 1
    /\ item[b][i].results[1].status = "success"

Failed(b, i) ==
    /\ Processed(b, i) = 1
    /\ item[b][i].results[1].status = "error"

----------------------------------------------------------------------------
(* C1 *)

\* C1: a batch over n input paths emits exactly n img-processed events:
\* there is one closure per input position, none ever emits two, and
\* once the batch is over every position has exactly one, whichever items
\* failed to open, encode or write.
C1_OneResultPerInput ==
    \A b \in Batches :
        /\ Len(item[b]) = Len(batch[b].paths)
        /\ \A i \in Items(b) : Processed(b, i) <= 1
        /\ batch[b].state = "done" => \A i \in Items(b) : Processed(b, i) = 1

\* a finished batch of at least two items, one succeeded and one failed
C1_Witness ==
    \E b \in Batches :
        /\ batch[b].state = "done"
        /\ \E i, j \in Items(b) : Succeeded(b, i) /\ Failed(b, j)

----------------------------------------------------------------------------
(* C2 *)

Original(b, i) == item[b][i].results[1].original

\* C2 as claimed: no two img-processed events of one batch carry the same
\* original, and every original is one of the input paths.
C2_UniqueOriginals ==
    \A b \in Batches :
        /\ \A i \in Items(b) : Processed(b, i) >= 1 =>
              \E k \in Items(b) : Original(b, i) = batch[b].paths[k]
        /\ \A i, j \in Items(b) :
              (i # j /\ Processed(b, i) >= 1 /\ Processed(b, j) >= 1) =>
                  Original(b, i) # Original(b, j)

\* C2 as amended: every img-processed event carries the input path of its
\* own position, so the originals of a batch are the input paths counted
\* with their multiplicity, and two events carry the same original exactly
\* when their two input positions hold the same path.
C2_OriginalsAreInputs ==
    \A b \in Batches :
        /\ \A i \in Items(b) : \A k \in 1..Processed(b, i) :
              item[b][i].results[k].original = batch[b].paths[i]
        /\ \A i, j \in Items(b) :
              (Processed(b, i) >= 1 /\ Processed(b, j) >= 1) =>
                  (Original(b, i) = Original(b, j)
                      <=> batch[b].paths[i] = batch[b].paths[j])

\* a finished batch that was given the same path twice
C2_Witness ==
    \E b \in Batches :
        /\ batch[b].state = "done"
        /\ \E i, j \in Items(b) :
              /\ i # j
              /\ batch[b].paths[i] = batch[b].paths[j]
              /\ Processed(b, i) = 1 /\ Processed(b, j) = 1

----------------------------------------------------------------------------
(* C3 *)

\* C3: no write of a worker targets a path that exists at the moment of
\* the write: a file, once in the output directory, keeps its content.
C3_NeverOverwrites ==
    [][\A p \in DOMAIN fs : p \in DOMAIN fs' /\ fs'[p] = fs[p]]_vars

----------------------------------------------------------------------------
(* C4 *)

\* C4: batch-finished is emitted at most once per batch, only when every
\* item of the batch has emitted its img-start and its img-processed, and a
\* batch that is over has emitted it; after it the batch emits nothing more.
C4_FinishedOnceAtEnd ==
    [][\A b \in Batches :
          /\ Finished(b)' # Finished(b) =>
                /\ Finished(b) = 0 /\ Finished(b)' = 1
                /\ \A i \in Items(b) : Starts(b, i) = 1 /\ Processed(b, i) = 1
          /\ Finished(b) >= 1 =>
                /\ Finished(b)' = Finished(b)
                /\ item'[b] = item[b]
          /\ batch'[b].state = "done" => Finished(b)' = 1]_vars

\* a batch of at least two items has emitted batch-finished
C4_Witness ==
    \E b \in Batches : Finished(b) = 1 /\ Len(batch[b].paths) >= 2

----------------------------------------------------------------------------
(* C5 *)

\* C5: an item emits img-start at most once, and every img-processed of an
\* item is emitted in a later step than its one img-start and is its only one.
C5_StartThenProcessed ==
    [][\A b \in Batches : \A i \in DOMAIN item'[b] :
          /\ Starts(b, i)' <= 1
          /\ i \in Items(b) =>
                /\ Starts(b, i)' >= Starts(b, i)
                /\ Processed(b, i)' # Processed(b, i) =>
                      /\ Starts(b, i) = 1 /\ Starts(b, i)' = 1
                      /\ Processed(b, i) = 0 /\ Processed(b, i)' = 1]_vars

\* items of one batch interleave: a later position has emitted its start and
\* its result while an earlier one is between its own two events
C5_Witness ==
    \E b \in Batches : \E i, j \in Items(b) :
        /\ i < j
        /\ Starts(b, i) = 1 /\ Processed(b, i) = 0
        /\ Starts(b, j) = 1 /\ Processed(b, j) = 1

----------------------------------------------------------------------------
(* C6 *)

\* the step emits the "Open failed" result of item i of batch b
OpenFailedNow(b, i) ==
    /\ i \in Items(b)
    /\ Processed(b, i) = 0
    /\ Processed(b, i)' = 1
    /\ item'[b][i].results[1].error_msg = {"Open failed"}

\* C6: an item whose file cannot be opened gets the result error / "Open
\* failed" / no new_path; an item whose file opens never gets that result
\* and fails only with its own encode or write error; a batch that is over
\* has a result for every item; and the step that reports the failed open
\* changes nothing but that item: not the directory, not another item.
C6_FailureIsolation ==
    /\ [](\A b \in Batches :
            /\ \A i \in Items(b) : Processed(b, i) >= 1 =>
                  IF image_open(batch[b].paths[i])
                  THEN \/ /\ item[b][i].results[1].status = "success"
                          /\ item[b][i].results[1].error_msg = {}
                          /\ item[b][i].results[1].new_path = {item[b][i].path}
                       \/ /\ item[b][i].results[1].status = "error"
                          /\ item[b][i].results[1].error_msg
                                \in {{"encode error"}, {"io error"}}
                          /\ item[b][i].results[1].new_path = {}
                  ELSE item[b][i].results[1] =
                          ProcessResult(batch[b].paths[i], "error", {"Open failed"}, {})
            /\ batch[b].state = "done" =>
                  \A i \in Items(b) : Processed(b, i) = 1)
    /\ [][\A b \in Batches : \A i \in Positions :
            OpenFailedNow(b, i) =>
                /\ fs' = fs
                /\ batch' = batch
                /\ \A c \in Batches : \A j \in Items(c) :
                      <<c, j>> # <<b, i>> => item'[c][j] = item[c][j]]_vars

\* a finished batch in which an item failed to open before another item,
\* later in the list, succeeded
C6_Witness ==
    \E b \in Batches :
        /\ batch[b].state = "done"
        /\ \E i, j \in Items(b) :
              /\ i < j
              /\ ~image_open(batch[b].paths[i])
              /\ Failed(b, i)
              /\ item[b][i].results[1].error_msg = {"Open failed"}
              /\ Succeeded(b, j)

----------------------------------------------------------------------------
(* C7 *)

\* the desired paths get_unique_path is called with
Desired == {base_output_path(p, format) : p \in InputImages}

Suffixed(desired, n) == [desired EXCEPT !.n = n]

\* C7: on every directory the program reaches, get_unique_path called with
\* nothing else creating files returns the desired path itself when that
\* does not exist, and otherwise the path of the smallest suffix n >= 1 that
\* does not exist (so suffix N when the base name and the suffixes 1..N-1
\* are there); the path it returns does not exist.
C7_SmallestFreeSuffix ==
    \A desired \in Desired :
        LET r == get_unique_path(desired, fs) IN
        /\ ~exists(r, fs)
        /\ ~exists(desired, fs) => r = desired
        /\ exists(desired, fs) =>
              /\ r.n >= 1
              /\ r = Suffixed(desired, r.n)
              /\ \A m \in 1..(r.n - 1) : exists(Suffixed(desired, m), fs)

\* the base name and suffix 1 exist, and suffix 2 is returned
C7_Witness ==
    \E desired \in Desired :
        /\ exists(desired, fs)
        /\ exists(Suffixed(desired, 1), fs)
        /\ get_unique_path(desired, fs) = Suffixed(desired, 2)

----------------------------------------------------------------------------
(* C8 *)

\* two calls of one path each, of the same stem, into a directory that
\* held no output file of that stem, have both succeeded
TwoCallsSameStem ==
    /\ batch[1].state = "done" /\ batch[2].state = "done"
    /\ Len(batch[1].paths) = 1 /\ Len(batch[2].paths) = 1
    /\ image_open(batch[1].paths[1]) /\ image_open(batch[2].paths[1])
    /\ file_stem(batch[1].paths[1]) = file_stem(batch[2].paths[1])
    /\ \A p \in DOMAIN fs :
          p.stem = file_stem(batch[1].paths[1]) => fs[p].owner # Pre
    /\ Succeeded(1, 1) /\ Succeeded(2, 1)

FirstBaseSecondOne ==
    /\ item[1][1].results[1].new_path =
          {base_output_path(batch[1].paths[1], format)}
    /\ item[2][1].results[1].new_path =
          {Suffixed(base_output_path(batch[2].paths[1], format), 1)}

\* C8 as claimed: in every schedule of the two spawned batches the first
\* call's item is written to name-compressed.ext and the second call's to
\* name-compressed-1.ext.
C8_TwoCallsAnySchedule == TwoCallsSameStem => FirstBaseSecondOne

\* C8 as amended: the same, when the second call is made after the first
\* batch has emitted batch-finished.
C8_TwoCallsAwaited ==
    (TwoCallsSameStem /\ batch[2].awaited) => FirstBaseSecondOne

C8_Witness == TwoCallsSameStem /\ batch[2].awaited /\ FirstBaseSecondOne

----------------------------------------------------------------------------
(* C9 *)

\* the items of batch b between their img-start and their img-processed
Processing(b) == {i \in Items(b) : Starts(b, i) >= 1 /\ Processed(b, i) = 0}

----------------------------------------------------------------------------
(* C10 *)

AllProcessed(b) ==
    /\ Finished(b) = 1
    /\ \A i \in Items(b) : Processed(b, i) = 1

\* C10: under fair scheduling of the workers, a batch that has started
\* comes to emit img-processed for every item and then batch-finished.
C10_RunToCompletion ==
    \A b \in Batches : (batch[b].state = "running") ~> AllProcessed(b)

\* a batch all of whose items failed has emitted batch-finished
C10_Witness ==
    \E b \in Batches :
        /\ AllProcessed(b)
        /\ Len(batch[b].paths) >= 2
        /\ \A i \in Items(b) : Failed(b, i)

----------------------------------------------------------------------------
(* Sizes: the estimator's and the resizer's arithmetic *)

\* widths and heights of the small images
MaxDim == 4
\* bytes a proxy encodes to
MaxBytes == 2

\* let proxy_size = 256
ProxySize == 256

\* image sizes: small ones and ones around the proxy threshold
Dims ==
    (1..MaxDim) \cup {ProxySize - 1, ProxySize, ProxySize + 1, 2 * ProxySize,
                      12 * ProxySize}

\* max_width, max_height: Option<u32>, a set of at most one positive number
Caps ==
    {{}} \cup {{c} : c \in (1..MaxDim) \cup {ProxySize, ProxySize + 1,
                                           2 * ProxySize}}

The(opt) == CHOOSE x \in opt : TRUE

\* an f64 ratio, kept exact
Frac(n, d) == [n |-> n, d |-> d]

Leq(a, b) == a.n * b.d <= b.n * a.d

\* f64::min
MinFrac(a, b) == IF Leq(a, b) THEN a ELSE b

\* cap.unwrap_or(u32::MAX) as f64 / orig as f64; no size exceeds u32::MAX, so
\* the ratio of an absent cap is at least 1 and is kept as 1/0, above all
cap_ratio(cap, orig) ==
    IF cap = {} THEN Frac(1, 0) ELSE Frac(The(cap), orig)

\* let scale = (target_w / orig_w).min(target_h / orig_h).min(1.0)
scale(w, h, max_width, max_height) ==
    MinFrac(MinFrac(cap_ratio(max_width, w), cap_ratio(max_height, h)), Frac(1, 1))

\* (orig as f64 * scale) as u32: the cast truncates
as_u32(orig, f) == (orig * f.n) \div f.d

Size(w, h) == [w |-> w, h |-> h]

\* final_w, final_h of preview_images
final_size(w, h, max_width, max_height) ==
    Size(as_u32(w, scale(w, h, max_width, max_height)),
         as_u32(h, scale(w, h, max_width, max_height)))

\* (orig as f64 * ratio).round(): halves round away from zero
round_f64(orig, f) == (2 * orig * f.n + f.d) \div (2 * f.d)

Max(a, b) == IF a >= b THEN a ELSE b

\* the size DynamicImage::resize(nwidth, nheight, filter) gives an image of
\* w x h: the largest of the same aspect ratio within the two limits, each
\* side rounded and at least 1
resize_dimensions(w, h, nwidth, nheight) ==
    LET ratio == MinFrac(cap_ratio(nwidth, w), cap_ratio(nheight, h)) IN
    Size(Max(round_f64(w, ratio), 1), Max(round_f64(h, ratio), 1))

\* w > tw, with tw = max_width.unwrap_or(u32::MAX)
exceeds(x, cap) == cap # {} /\ x > The(cap)

\* a resizer that acts only when both sides exceed their caps
final_img_size_both(w, h, max_width, max_height) ==
    IF exceeds(w, max_width) /\ exceeds(h, max_height)
    THEN resize_dimensions(w, h, max_width, max_height)
    ELSE Size(w, h)

\* the size of final_img in compress_images
final_img_size(w, h, max_width, max_height) ==
    IF exceeds(w, max_width) \/ exceeds(h, max_height)
    THEN resize_dimensions(w, h, max_width, max_height)
    ELSE Size(w, h)

\* the size of proxy_img in preview_images
proxy_size(w, h, final) ==
    IF final.w > ProxySize
    THEN resize_dimensions(w, h, {ProxySize}, {ProxySize})
    ELSE resize_dimensions(w, h, {final.w}, {final.h})

\* an estimator that scales by the areas in both branches
area_ratio_always(final, proxy) ==
    Frac(final.w * final.h, proxy.w * proxy.h)

\* the area ratio of preview_images
area_ratio(final, proxy) ==
    IF final.w > ProxySize
    THEN Frac(final.w * final.h, proxy.w * proxy.h)
    ELSE Frac(1, 1)

\* preview_size: (s as f64 * ratio) as u64
preview_size(s, ratio) == (s * ratio.n) \div ratio.d

\* what preview_images computes for an image of w x h whose proxy encodes
\* to s bytes
Estimate(w, h, max_width, max_height, s) ==
    LET final == final_size(w, h, max_width, max_height)
        proxy == proxy_size(w, h, final)
        ratio == area_ratio(final, proxy)
    IN  [final |-> final, proxy |-> proxy, ratio |-> ratio, encoded |-> s,
         preview_size |-> preview_size(s, ratio)]

NumInit ==
    /\ num \in [stage : {"input"}, w : Dims, h : Dims,
                max_width : Caps, max_height : Caps, s : 1..MaxBytes,
                estimate : {{}}, final_img : {{}}]
    /\ script = <<>>
    /\ format = "webp"
    /\ fs = <<>>
    /\ batch = [b \in Batches |-> Idle]
    /\ item = [b \in Batches |-> <<>>]
    /\ pv = PvIdle

\* the estimator measures the image
NumEstimate ==
    /\ num.stage = "input"
    /\ num.estimate = {}
    /\ num' = [num EXCEPT !.estimate =
          {Estimate(num.w, num.h, num.max_width, num.max_height, num.s)}]
    /\ UNCHANGED <<script, format, fs, batch, item, pv>>

\* the batch executor resizes the image
NumResize ==
    /\ num.stage = "input"
    /\ num.final_img = {}
    /\ num' = [num EXCEPT !.final_img =
          {final_img_size(num.w, num.h, num.max_width, num.max_height)}]
    /\ UNCHANGED <<script, format, fs, batch, item, pv>>

NumNext == NumEstimate \/ NumResize

\* the two computations on every image size and pair of caps
NumSpec == NumInit /\ [][NumNext]_vars

----------------------------------------------------------------------------
(* Claims on the sizes *)

\* C13: when the final width is at most the proxy threshold, the proxy is the
\* image resized to the final width and height, the area ratio is exactly 1
\* and preview_size is the byte count the proxy encodes to; a ratio other
\* than 1 appears only when the final width exceeds the threshold.
C13_DirectBelowThreshold ==
    \A e \in num.estimate :
        /\ e.final.w <= ProxySize =>
              /\ e.proxy = resize_dimensions(num.w, num.h, {e.final.w}, {e.final.h})
              /\ e.ratio = Frac(1, 1)
              /\ e.preview_size = e.encoded
        /\ e.ratio # Frac(1, 1) => e.final.w > ProxySize

C13_Witness ==
    \E e \in num.estimate :
        /\ e.final.w = ProxySize
        /\ num.w > ProxySize
        /\ e.preview_size = e.encoded

\* C14: the final size the estimator computes equals the size the batch
\* executor gives the written image, for the same image and caps.
C14_SameFinalSize ==
    \A e \in num.estimate : \A r \in num.final_img : e.final = r

\* C15: the image passed to the encoder is never wider or higher than the
\* decoded one nor than a cap that is present, and it has the decoded size
\* exactly when neither side exceeds its cap (caps are positive).
C15_ResizeWithinCaps ==
    \A r \in num.final_img :
        /\ r.w <= num.w
        /\ r.h <= num.h
        /\ num.max_width # {} => r.w <= The(num.max_width)
        /\ num.max_height # {} => r.h <= The(num.max_height)
        /\ r = Size(num.w, num.h)
              <=> ~(exceeds(num.w, num.max_width) \/ exceeds(num.h, num.max_height))

C15_Witness ==
    \E r \in num.final_img :
        /\ num.max_width # {}
        /\ exceeds(num.w, num.max_width)
        /\ ~exceeds(num.h, num.max_height)
        /\ r.w = The(num.max_width)
        /\ r.h < num.h

\* C20: the final width and height the estimator computes are both at least
\* 1, and in the proxy branch a proxy that encodes to a positive byte count
\* never gives preview_size 0.
C20_PositiveEstimate ==
    \A e \in num.estimate :
        /\ e.final.w >= 1
        /\ e.final.h >= 1
        /\ (e.final.w > ProxySize /\ e.encoded > 0) => e.preview_size > 0

----------------------------------------------------------------------------
(* preview_images: one closure per path on the global rayon pool, then one
   preview-done event *)

\* paths of one call of preview_images
MaxPaths == 2

\* the paths a preview draws from: two images, a file that is no image and
\* a path that names no file
PvPaths == {Path("a", 1), Path("a", 2), Path("bad", 1), Path("gone", 1)}

PvCalls == UNION {[1..k -> PvPaths] : k \in 1..MaxPaths}

\* max_width of the previews; max_height is absent
PvCaps == {{}, {ProxySize + 1}}

\* fs::metadata(path) succeeds
on_disk(p) == p.dir # "gone"

\* metadata.len()
metadata_len(p) == 100 * file_stem(p)

\* (img.width(), img.height())
image_size(p) ==
    IF file_stem(p) = 1 THEN Size(2 * ProxySize, ProxySize) ELSE Size(MaxDim, MaxDim)

PreviewResult(path, original_size, size) ==
    [path |-> path, original_size |-> original_size, preview_size |-> size]

\* a dispatch whose last arm saves by extension as the batch does
preview_codec_fallback(fmt) == {codec_of(fmt)}

\* the encoder each arm of preview_images' match runs on the proxy; the
\* last arm runs none
preview_codec(fmt) ==
    CASE fmt = "webp" -> {"WebP"}
      [] fmt = "avif" -> {"Avif"}
      [] fmt = "png" -> {"Png"}
      [] fmt \in {"jpg", "jpeg"} -> {"Jpeg"}
      [] OTHER -> {}

\* a closure of filter_map: where it stands, what it has read and returned
PvItem(pc, path, original_size, codec, encode, out) ==
    [pc |-> pc, path |-> path, original_size |-> original_size,
     codec |-> codec, encode |-> encode, out |-> out]

PvPending(p) == PvItem("metadata", p, 0, {}, "none", {})

PvItems == DOMAIN pv.items

SetPv(i, it) == pv' = [pv EXCEPT !.items[i] = it]

\* a collect that stops at the first closure that returned None
RECURSIVE collect_while(_)
collect_while(items) ==
    IF items = <<>> \/ Head(items).out = {} THEN <<>>
    ELSE <<The(Head(items).out)>> \o collect_while(Tail(items))

\* filter_map(..).collect(): the Some values, in the order of the paths
RECURSIVE collect(_)
collect(items) ==
    IF items = <<>> THEN <<>>
    ELSE (IF Head(items).out = {} THEN <<>> ELSE <<The(Head(items).out)>>)
            \o collect(Tail(items))

PreviewInit ==
    /\ script = <<>>
    /\ format \in Formats
    /\ \E pre \in {{}, {base_output_path(Path("a", 1), format)}} :
          fs = [p \in pre |-> File(Pre, "pre", TRUE)]
    /\ batch = [b \in Batches |-> Idle]
    /\ item = [b \in Batches |-> <<>>]
    /\ pv = PvIdle
    /\ num = NumIdle

\* the shell invokes preview_images(config): the task is spawned
PvInvoke ==
    /\ pv.state = "idle"
    /\ \E paths \in PvCalls, cap \in PvCaps :
          pv' = [state |-> "running", paths |-> paths,
                 max_width |-> cap, max_height |-> {},
                 items |-> [i \in DOMAIN paths |-> PvPending(paths[i])],
                 emitted |-> <<>>]
    /\ UNCHANGED <<script, format, fs, batch, item, num>>

\* let metadata = fs::metadata(path).ok()?
PvMetadata(i) ==
    /\ pv.state = "running"
    /\ pv.items[i].pc = "metadata"
    /\ IF on_disk(pv.items[i].path)
       THEN SetPv(i, [pv.items[i] EXCEPT
                !.pc = "open", !.original_size = metadata_len(pv.items[i].path)])
       ELSE SetPv(i, [pv.items[i] EXCEPT !.pc = "done"])
    /\ UNCHANGED <<script, format, fs, batch, item, num>>

\* let img = image::open(path).ok()?
PvOpen(i) ==
    /\ pv.state = "running"
    /\ pv.items[i].pc = "open"
    /\ IF image_open(pv.items[i].path)
       THEN SetPv(i, [pv.items[i] EXCEPT !.pc = "encode"])
       ELSE SetPv(i, [pv.items[i] EXCEPT !.pc = "done"])
    /\ UNCHANGED <<script, format, fs, batch, item, num>>

\* a closure that also saves its proxy next to the outputs
PvEncodeSaving(i) ==
    /\ pv.state = "running"
    /\ pv.items[i].pc = "encode"
    /\ SetPv(i, [pv.items[i] EXCEPT !.pc = "done"])
    /\ fs' = put(fs, base_output_path(pv.items[i].path, format),
                 File(<<0, i>>, codec_of(format), TRUE))
    /\ UNCHANGED <<script, format, batch, item, num>>

\* the sizes, the proxy, size_res and the PreviewResult of one closure
PvEncode(i) ==
    /\ pv.state = "running"
    /\ pv.items[i].pc = "encode"
    /\ LET it == pv.items[i]
           sz == image_size(it.path)
       IN  IF preview_codec(format) = {}
           THEN SetPv(i, [it EXCEPT !.pc = "done"])
           ELSE \E outcome \in {"Ok", "encode"}, s \in 1..MaxBytes :
                  IF outcome = "Ok"
                  THEN SetPv(i, [it EXCEPT
                         !.pc = "done", !.codec = preview_codec(format),
                         !.encode = "Ok",
                         !.out = {PreviewResult(it.path, it.original_size,
                                    Estimate(sz.w, sz.h, pv.max_width,
                                             pv.max_height, s).preview_size)}])
                  ELSE SetPv(i, [it EXCEPT
                         !.pc = "done", !.codec = preview_codec(format),
                         !.encode = "failed"])
    /\ UNCHANGED <<script, format, fs, batch, item, num>>

\* let _ = app_handle.emit("preview-done", results), once collect has
\* every closure's value
PvEmit ==
    /\ pv.state = "running"
    /\ \A i \in PvItems : pv.items[i].pc = "done"
    /\ pv' = [pv EXCEPT !.state = "done",
                        !.emitted = Append(pv.emitted, collect(pv.items))]
    /\ UNCHANGED <<script, format, fs, batch, item, num>>

PvStep(i) == PvMetadata(i) \/ PvOpen(i) \/ PvEncode(i)

PvNext ==
    \/ PvInvoke
    \/ \E i \in 1..MaxPaths : i \in PvItems /\ PvStep(i)
    \/ PvEmit

\* one run of preview_images; the spawned task and the pool threads run
\* whenever they can
PreviewSpec ==
    /\ PreviewInit /\ [][PvNext]_vars
    /\ WF_vars(PvEmit)
    /\ \A i \in 1..MaxPaths : WF_vars(i \in PvItems /\ PvStep(i))

----------------------------------------------------------------------------
(* Claims on the preview *)

\* reading the size, decoding and encoding the proxy all succeeded
Present(it) ==
    on_disk(it.path) /\ image_open(it.path) /\ it.encode = "Ok"

\* the positions whose results a payload of len entries holds, counted over
\* the first n items
RECURSIVE PresentBefore(_, _)
PresentBefore(items, n) ==
    IF n = 0 THEN 0
    ELSE PresentBefore(items, n - 1) + (IF Present(items[n]) THEN 1 ELSE 0)

\* the payload holds one entry per present item and none for the others,
\* in the order of the input positions
PayloadIsPresentItems(payload, items) ==
    /\ Len(payload) = PresentBefore(items, Len(items))
    /\ \A i \in DOMAIN items :
          Present(items[i]) =>
              /\ payload[PresentBefore(items, i)].path = items[i].path
              /\ payload[PresentBefore(items, i)].original_size
                    = metadata_len(items[i].path)
              /\ items[i].out = {payload[PresentBefore(items, i)]}

\* C11 (safety part): a run emits at most one preview-done, and none before
\* every closure has returned; its payload holds exactly the items whose
\* read, decode and proxy encode all succeeded, in input order, whatever
\* happened to the other items.
C11_PayloadInv ==
    /\ Len(pv.emitted) <= 1
    /\ (pv.state = "done") <=> (Len(pv.emitted) = 1)
    /\ pv.state = "done" => PayloadIsPresentItems(pv.emitted[1], pv.items)

\* C11: each run of preview_images emits exactly one preview-done event,
\* whose payload holds exactly the items that were read, decoded and
\* encoded; a failing item prevents neither the event nor another item's
\* result.
C11_OnePreviewDone ==
    /\ [](C11_PayloadInv)
    /\ (pv.state = "running") ~> (pv.state = "done")

C11_Witness ==
    /\ pv.state = "done"
    /\ Len(pv.items) = 2
    /\ ~Present(pv.items[1])
    /\ image_open(pv.items[1].path)
    /\ Present(pv.items[2])
    /\ Len(pv.emitted[1]) = 1

\* C12: no step of a run of preview_images changes the files on disk or
\* their contents.
C12_PreviewReadOnly == [][fs' = fs]_vars

C12_Witness ==
    /\ pv.state = "done"
    /\ pv.emitted[1] # <<>>
    /\ fs # <<>>

\* the five tags with an arm of their own
KnownFormats == {"webp", "avif", "png", "jpg", "jpeg"}

\* a closure that has returned for a readable image
Readable(it) == it.pc = "done" /\ on_disk(it.path) /\ image_open(it.path)

\* C17 as stated: for every format tag the estimator encodes the proxy with
\* the encoder the batch executor uses and produces a PreviewResult for each
\* readable image (unless the encode itself fails).
C17_SameDispatch ==
    \A i \in PvItems :
        Readable(pv.items[i]) =>
            /\ pv.items[i].codec = {codec_of(format)}
            /\ pv.items[i].encode # "failed" => pv.items[i].out # {}

\* C17 amended: for the tags jpg, jpeg, png, webp and avif the estimator
\* encodes the proxy with the encoder the batch executor uses and produces
\* a PreviewResult when that encode succeeds; for any other tag it encodes
\* nothing and produces no PreviewResult.
C17_SameDispatchKnown ==
    \A i \in PvItems :
        Readable(pv.items[i]) =>
            IF format \in KnownFormats
            THEN /\ pv.items[i].codec = {codec_of(format)}
                 /\ pv.items[i].encode # "failed" => pv.items[i].out # {}
            ELSE /\ pv.items[i].codec = {}
                 /\ pv.items[i].out = {}

C17_Witness ==
    /\ pv.state = "done"
    /\ format \notin KnownFormats
    /\ \E i \in PvItems : Readable(pv.items[i])
    /\ pv.emitted[1] = <<>>

----------------------------------------------------------------------------
(* Claims on the written files *)

\* the encoding a file extension denotes
from_extension(e) ==
    CASE e = "jpg" -> "Jpeg"
      [] e = "png" -> "Png"
      [] e = "webp" -> "WebP"
      [] e = "avif" -> "Avif"
      [] e = "bmp" -> "Bmp"
      [] OTHER -> "none"

\* C16: for every format tag, the encoding of a file a worker has written
\* is the one its extension denotes.
C16_EncodingMatchesExtension ==
    \A p \in DOMAIN fs :
        fs[p].owner # Pre => fs[p].codec = from_extension(p.ext)

\* the path a succeeded item reports
NewPath(b, i) == The(item[b][i].results[1].new_path)

\* C18: when a batch has finished, the new_path of every succeeded item
\* names a file that holds that item's own complete output, and no two
\* succeeded items of the batch report the same new_path.
C18_NoLostOutput ==
    \A b \in Batches :
        batch[b].state = "done" =>
            /\ \A i \in Items(b) :
                  Succeeded(b, i) =>
                      /\ NewPath(b, i) \in DOMAIN fs
                      /\ fs[NewPath(b, i)].owner = <<b, i>>
                      /\ fs[NewPath(b, i)].complete
            /\ \A i, j \in Items(b) :
                  (i # j /\ Succeeded(b, i) /\ Succeeded(b, j))
                      => NewPath(b, i) # NewPath(b, j)

\* C19: an item whose result has status "error" has left no file in the
\* output directory.
C19_ErrorLeavesNoFile ==
    \A b \in Batches : \A i \in Items(b) :
        Failed(b, i) => \A p \in DOMAIN fs : fs[p].owner # <<b, i>>

====
